---- MODULE Spec2Model ----
(***************************************************************************)
(* VOM::ACL::l2_list (extras/vom/vom/acl_l2_list.cpp): the reconciliation  *)
(* protocol of one object kind.  Instances live in a heap `obj`; the       *)
(* singular store m_db and the per-handle index m_hdl_db are the two       *)
(* static maps of the class; `queue` is the HW command queue and `dev`     *)
(* the ACL table of the device behind it.  `last` records what the last    *)
(* operation was handed, what it returned and the HW calls it made, in     *)
(* the order it made them.                                                 *)
(***************************************************************************)
EXTENDS Integers, Sequences, FiniteSets

\* ------------------------------------------------------------------ bounds
MaxObj == 3
MaxHdl == 2
MaxQueue == 2
MaxRefs == 1
MaxSteps == 6
MaxStepsUpdate == 7
MaxStepsReplay == 9
MaxStepsPopulate == 7

\* ------------------------------------------------------------- value types
KeyOrder == <<"k1", "k2">>
Keys == {KeyOrder[n] : n \in 1..Len(KeyOrder)}
Rules == {"A", "B"}
\* The order index of a rule; A and B differ in it alone.
Priority == [r \in Rules |-> IF r = "A" THEN 0 ELSE 1]
\* The rule of order index ii.
RuleAt(ii) == CHOOSE r \in Rules : Priority[r] = ii
\* What a rule matches and does: everything of it but the order index.
Match == [r \in Rules |-> "m"]

RECURSIVE Ordered(_)
\* The rules of a rule set in the order the set keeps them: by order index.
Ordered(rules) ==
  IF rules = {} THEN <<>>
  ELSE LET r == CHOOSE x \in rules :
                  \A y \in rules : Priority[x] <= Priority[y]
       IN <<r>> \o Ordered(rules \ {r})

\* Equality of two rule sets as update compares them: as many rules, equal
\* one by one in order, the order index left out of a rule's equality.
RulesEqual(a, b) ==
  /\ Len(Ordered(a)) = Len(Ordered(b))
  /\ \A n \in 1..Len(Ordered(a)) :
       Match[Ordered(a)[n]] = Match[Ordered(b)[n]]
RuleSets == SUBSET Rules
\* The rule sets callers construct objects with; insert and remove reach
\* the others.
CtorRules == {{"A"}}
Ids == 1..MaxObj
Handles == 1..MaxHdl

\* handle_t::INVALID, the handle of an object the device has not named.
INVALID == 0
\* The null shared_ptr / an absent map entry.
NULL == 0
\* The empty slot of the device's ACL table.
NoAcl == [key |-> "", rules |-> {}, used |-> FALSE]

\* HW::item<handle_t> built from a handle alone: the handle with a result
\* code that is not OK (no command has provisioned it yet).
ItemOf(h) == [data |-> h, rc |-> "UNSET"]

\* HW::item::operator bool: the item is valid when its result code is OK.
Valid(item) == item.rc = "OK"

\* A heap slot holding no object.
Dead == [alive |-> FALSE, shared |-> FALSE, hdl |-> ItemOf(INVALID),
         key |-> "", rules |-> {}, refs |-> 0, om |-> FALSE]

VARIABLES obj, m_db, m_hdl_db, queue, dev, handed, last, budget

vars == <<obj, m_db, m_hdl_db, queue, dev, handed, last, budget>>

\* The state the operations transform, with the log of HW calls made so far
\* by the running operation.
Cur == [obj |-> obj, db |-> m_db, hdb |-> m_hdl_db, q |-> queue, dev |-> dev,
        log |-> <<>>, ret |-> NULL]

\* ------------------------------------------------------------ constructors
\* l2_list::l2_list(const key_t&)
l2_list_key(key) ==
  [alive |-> TRUE, shared |-> FALSE, hdl |-> ItemOf(INVALID), key |-> key,
   rules |-> {}, refs |-> 0, om |-> FALSE]

\* The (handle, key) constructor with the handle left out.
l2_list_hdl_key_no_handle(hdl, key) ==
  [alive |-> TRUE, shared |-> FALSE, hdl |-> ItemOf(INVALID), key |-> key,
   rules |-> {}, refs |-> 0, om |-> FALSE]

\* l2_list::l2_list(const handle_t&, const key_t&)
l2_list_hdl_key(hdl, key) ==
  [alive |-> TRUE, shared |-> FALSE, hdl |-> ItemOf(hdl), key |-> key,
   rules |-> {}, refs |-> 0, om |-> FALSE]

\* l2_list::l2_list(const key_t&, const rules_t&)
l2_list_key_rules(key, rules) ==
  [alive |-> TRUE, shared |-> FALSE, hdl |-> ItemOf(INVALID), key |-> key,
   rules |-> rules, refs |-> 0, om |-> FALSE]

\* l2_list::l2_list(const l2_list&): handle (with its result code), key and
\* rules are all copied.
l2_list_copy(o) ==
  [alive |-> TRUE, shared |-> FALSE, hdl |-> o.hdl, key |-> o.key,
   rules |-> o.rules, refs |-> 0, om |-> FALSE]

\* --------------------------------------------------------------- the heap
FreeIds(s) ==
  {i \in Ids : ~s.obj[i].alive /\ \A h \in DOMAIN s.hdb : s.hdb[h] # i}

\* The owning references to a heap object: the callers' shared_ptrs and
\* the one the commit registry keeps.  The weak_ptrs of m_hdl_db are none.
Owners(o) == o.refs + (IF o.om THEN 1 ELSE 0)

HasFree(s) == FreeIds(s) # {}

\* The slot a new object is placed in.
NewId(s) == CHOOSE i \in FreeIds(s) : \A j \in FreeIds(s) : i <= j

\* ------------------------------------------------------------- HW (queue)
\* HW::enqueue: the command joins the queue.  The item (the object's m_hdl)
\* is bound by reference: the command reads the handle and writes the
\* result through `item`; key and rules are the values it was handed.
Enqueue(s, c) ==
  [s EXCEPT !.q = Append(@, c),
            !.log = Append(@, [e |-> "enqueue", type |-> c.type,
                               hdl |-> IF c.item = NULL THEN INVALID
                                       ELSE s.obj[c.item].hdl.data,
                               key |-> c.key, rules |-> c.rules])]

l2_update_cmd(i, key, rules) ==
  [type |-> "push", item |-> i, key |-> key, rules |-> rules]

l2_delete_cmd(i) ==
  [type |-> "delete", item |-> i, key |-> "", rules |-> {}]

l2_dump_cmd == [type |-> "dump", item |-> NULL, key |-> "", rules |-> {}]

\* --------------------------------------------------------- singular store
\* singular_db::find: the registered instance of the key, or null.  The
\* store holds weak references: the entry of an instance whose destructor
\* is running is expired and locks to null.
db_find(s, key) ==
  IF s.db[key] # NULL /\ s.obj[s.db[key]].alive THEN s.db[key] ELSE NULL

\* singular_db::find_or_add: the registered instance if there is one (the
\* candidate is discarded), else a new shared instance copy-constructed
\* from the candidate and registered under the key.
db_find_or_add(s, key, temp) ==
  IF s.db[key] # NULL
  THEN [s EXCEPT !.ret = s.db[key]]
  ELSE LET j == NewId(s)
       IN [s EXCEPT !.obj[j] = [l2_list_copy(temp) EXCEPT !.shared = TRUE],
                    !.db[key] = j,
                    !.ret = j]

\* singular_db::release: the entry goes only if the instance released is
\* the one registered.
db_release(s, key, i) ==
  LET ev(what) == [e |-> "release", type |-> what, hdl |-> INVALID,
                   key |-> key, rules |-> {}]
  IN IF s.db[key] = i
     THEN [s EXCEPT !.db[key] = NULL, !.log = Append(@, ev("erased"))]
     ELSE [s EXCEPT !.log = Append(@, ev("kept"))]

\* ------------------------------------------------------------ l2_list API
\* l2_list::find(const key_t&)
find_key(s, key) == db_find(s, key)

\* find_or_add registering a new instance whether or not the key has one.
find_or_add_always_adds(s, temp) ==
  db_find_or_add([s EXCEPT !.db[temp.key] = NULL], temp.key, temp)

\* l2_list::find_or_add
find_or_add(s, temp) == db_find_or_add(s, temp.key, temp)

\* l2_list::singular
singular(s, i) == find_or_add(s, s.obj[i])

\* find(handle) over plain pointers: the entry's object, gone or not.
find_hdl_raw(s, h) ==
  LET t == IF s.hdb[h] = -1 THEN [s EXCEPT !.hdb[h] = NULL] ELSE s
  IN [t EXCEPT !.ret = IF t.hdb[h] # NULL THEN t.hdb[h] ELSE NULL]

\* l2_list::find(const handle_t&): operator[] of the map makes an entry
\* holding an empty weak_ptr when the handle has none; lock() of an empty
\* or expired weak_ptr is null.
find_hdl(s, h) ==
  LET t == IF s.hdb[h] = -1 THEN [s EXCEPT !.hdb[h] = NULL] ELSE s
      w == t.hdb[h]
  IN [t EXCEPT !.ret = IF w # NULL /\ t.obj[w].alive THEN w ELSE NULL]

\* add without its test of the instance and of the item.
add_unchecked(s, key, item) ==
  [s EXCEPT !.hdb[item.data] = find_key(s, key)]

\* l2_list::add(const key_t&, const HW::item<handle_t>&)
add(s, key, item) ==
  LET sp == find_key(s, key)
  IN IF sp # NULL /\ Valid(item)
     THEN [s EXCEPT !.hdb[item.data] = sp]
     ELSE s

\* l2_list::remove(const HW::item<handle_t>&)
remove_hdl(s, item) == [s EXCEPT !.hdb[item.data] = -1]

\* insert pushing the changed rule set at once.
insert_pushes(s, i, rule) ==
  LET t == [s EXCEPT !.obj[i].rules = @ \cup {rule}]
  IN Enqueue(t, l2_update_cmd(i, t.obj[i].key, t.obj[i].rules))

\* l2_list::insert(const l2_rule&)
insert(s, i, rule) == [s EXCEPT !.obj[i].rules = @ \cup {rule}]

\* l2_list::remove(const l2_rule&)
remove(s, i, rule) == [s EXCEPT !.obj[i].rules = @ \ {rule}]

\* ------------------------------------------------------------ HW (device)
FreeHdls(s) == {h \in Handles : ~s.dev[h].used}

\* The device names a new ACL with the lowest index it has free.
NewHdl(s) == CHOOSE h \in FreeHdls(s) : \A g \in FreeHdls(s) : h <= g

\* A push executed by the device: with no handle it creates an ACL and
\* names it, with the handle of an ACL it holds it replaces that ACL's
\* rules.  The result is written to the item the command was built on: the
\* handle with OK, or the failure.  A command that succeeded records its
\* handle in the per-handle index.
IssuePush(s, c, ok) ==
  LET h == s.obj[c.item].hdl.data
      inplace == h # INVALID /\ s.dev[h].used
      create == h = INVALID /\ FreeHdls(s) # {}
      g == IF inplace THEN h ELSE NewHdl(s)
  IN IF ok /\ (inplace \/ create)
     THEN LET t == [s EXCEPT !.obj[c.item].hdl = [data |-> g, rc |-> "OK"],
                             !.dev[g] = [key |-> c.key, rules |-> c.rules,
                                         used |-> TRUE]]
          IN add(t, c.key, t.obj[c.item].hdl)
     ELSE [s EXCEPT !.obj[c.item].hdl.rc = "FAIL"]

\* A delete executed by the device: the ACL of the item's handle goes.  A
\* command that succeeded takes the handle out of the per-handle index.
IssueDelete(s, c, ok) ==
  LET h == s.obj[c.item].hdl.data
  IN IF ok /\ h # INVALID /\ s.dev[h].used
     THEN LET t == [s EXCEPT !.dev[h] = NoAcl,
                             !.obj[c.item].hdl.rc = "UNSET"]
          IN remove_hdl(t, s.obj[c.item].hdl)
     ELSE [s EXCEPT !.obj[c.item].hdl.rc = "FAIL"]

\* A dump changes nothing; its records are the device's table.
Issue(s, c, ok) ==
  IF c.type = "push" THEN IssuePush(s, c, ok)
  ELSE IF c.type = "delete" THEN IssueDelete(s, c, ok)
  ELSE s

RECURSIVE Drain(_, _)
\* The queued commands are executed in the order they were enqueued,
\* outs[n] telling whether the device accepts the n-th; a failure does not
\* stop the ones behind it.
Drain(s, outs) ==
  IF s.q = <<>> THEN s
  ELSE Drain([Issue(s, Head(s.q), Head(outs)) EXCEPT !.q = Tail(s.q)],
             Tail(outs))

RECURSIVE Refused(_, _)
\* How many of the queued commands end with a result that is not OK.
Refused(s, outs) ==
  IF s.q = <<>> THEN 0
  ELSE LET c == Head(s.q)
           t == Issue(s, c, Head(outs))
       IN (IF c.type # "dump" /\ t.obj[c.item].hdl.rc = "FAIL" THEN 1 ELSE 0)
          + Refused([t EXCEPT !.q = Tail(s.q)], Tail(outs))

\* HW::write: blocks until every queued command has its result; the event
\* tells whether all of them succeeded.
HW_write(s, outs) ==
  [Drain(s, outs) EXCEPT !.log = Append(s.log,
                           [e |-> "write",
                            type |-> IF Refused(s, outs) = 0 THEN "ok"
                                     ELSE "failed",
                            hdl |-> INVALID, key |-> "", rules |-> {}])]

\* What the device may answer to the commands of one write.
Outcomes == [1..(MaxQueue + 1) -> BOOLEAN]

\* ------------------------------------------------ reconciliation protocol
\* update without the comparison: it pushes every time.
update_always_pushes(s, i, desired) ==
  LET t == Enqueue(s, l2_update_cmd(i, s.obj[i].key, s.obj[i].rules))
  IN [t EXCEPT !.obj[i].rules = desired.rules]

\* update without the test of the result code.
update_no_retry(s, i, desired) ==
  LET o == s.obj[i]
      t == IF ~RulesEqual(desired.rules, o.rules)
           THEN Enqueue(s, l2_update_cmd(i, o.key, o.rules))
           ELSE s
  IN [t EXCEPT !.obj[i].rules = desired.rules]

\* update adding the desired rules to the stored ones.
update_merges_rules(s, i, desired) ==
  LET o == s.obj[i]
      t == IF "OK" # o.hdl.rc \/ ~RulesEqual(desired.rules, o.rules)
           THEN Enqueue(s, l2_update_cmd(i, o.key, o.rules))
           ELSE s
  IN [t EXCEPT !.obj[i].rules = @ \cup desired.rules]

\* l2_list::update.  The comparison of the rule sets leaves the rules'
\* order indices out; the assignment that follows stores them.
update(s, i, desired) ==
  LET o == s.obj[i]
      t == IF "OK" # o.hdl.rc \/ ~RulesEqual(desired.rules, o.rules)
           THEN Enqueue(s, l2_update_cmd(i, o.key, o.rules))
           ELSE s
  IN [t EXCEPT !.obj[i].rules = desired.rules]

\* l2_list::sweep
sweep(s, i, outs) ==
  LET t == IF Valid(s.obj[i].hdl) THEN Enqueue(s, l2_delete_cmd(i)) ELSE s
  IN HW_write(t, outs)

\* replay without the reset of the handle.
replay_keeps_handle(s, i) ==
  IF Valid(s.obj[i].hdl)
  THEN Enqueue(s, l2_update_cmd(i, s.obj[i].key, s.obj[i].rules))
  ELSE s

\* replay without the test of the handle.
replay_unconditional(s, i) ==
  LET t == [s EXCEPT !.obj[i].hdl.data = INVALID]
  IN Enqueue(t, l2_update_cmd(i, t.obj[i].key, t.obj[i].rules))

\* l2_list::replay
replay(s, i) ==
  IF Valid(s.obj[i].hdl)
  THEN LET t == [s EXCEPT !.obj[i].hdl.data = INVALID]
       IN Enqueue(t, l2_update_cmd(i, t.obj[i].key, t.obj[i].rules))
  ELSE s

\* The destructor releasing the key before it sweeps.
dtor_release_first(s, i, outs) ==
  LET gone == [s EXCEPT !.obj[i].alive = FALSE]
      t == sweep(db_release(gone, s.obj[i].key, i), i, outs)
  IN [t EXCEPT !.obj[i] = Dead]

\* The destructor releasing whatever instance the key is registered to.
dtor_release_registered(s, i, outs) ==
  LET u == sweep([s EXCEPT !.obj[i].alive = FALSE], i, outs)
      t == db_release(u, s.obj[i].key, u.db[s.obj[i].key])
  IN [t EXCEPT !.obj[i] = Dead]

\* The destructor giving up when the delete of its sweep has failed: the
\* key is not released and the object stays.
dtor_needs_delete(s, i, outs) ==
  LET u == sweep(s, i, outs)
      gone == sweep([s EXCEPT !.obj[i].alive = FALSE], i, outs)
      t == db_release(gone, s.obj[i].key, i)
  IN IF u.obj[i].hdl.rc = "FAIL" THEN u ELSE [t EXCEPT !.obj[i] = Dead]

\* l2_list::~l2_list, and the storage of the object going.  The destructor
\* runs when the last owner has gone: from its first line on no weak
\* reference to the object locks.
dtor(s, i, outs) ==
  LET gone == [s EXCEPT !.obj[i].alive = FALSE]
      t == db_release(sweep(gone, i, outs), s.obj[i].key, i)
  IN [t EXCEPT !.obj[i] = Dead]

\* ------------------------------------------------------ population, replay
\* OM::commit: the object is routed into its singular store with the HW
\* queue disabled, and the registry keeps a reference to the instance.
OM_commit(s, a) ==
  LET t == singular(s, a)
  IN [t EXCEPT !.obj[t.ret].om = TRUE]

\* The handles of the records of a dump, in the device's order.
Records(s) == {h \in Handles : s.dev[h].used}

RECURSIVE InsertRecord(_, _, _, _)
\* The inner loop of handle_populate: the ii-th rule of the record is
\* built with order index ii, its place in the record, and inserted.
InsertRecord(s, a, ii, count) ==
  IF ii >= count THEN s
  ELSE InsertRecord(insert(s, a, RuleAt(ii)), a, ii + 1, count)

\* The body of the loop of handle_populate for the record of handle h: the
\* local acl is built from handle and tag, takes the record's rules one by
\* one, is committed, and leaves scope.
PopulateOne(s, h, outs) ==
  LET a == NewId(s)
      t == [s EXCEPT !.obj[a] = l2_list_hdl_key(h, s.dev[h].key)]
      u == InsertRecord(t, a, 0, Cardinality(s.dev[h].rules))
  IN dtor(OM_commit(u, a), a, outs)

RECURSIVE PopulateFrom(_, _, _)
PopulateFrom(s, hs, outs) ==
  IF hs = {} THEN s
  ELSE LET h == CHOOSE x \in hs : \A y \in hs : x <= y
       IN PopulateFrom(PopulateOne(s, h, outs), hs \ {h}, outs)

\* l2_list::event_handler::handle_populate
handle_populate(s, outs) ==
  LET t == HW_write(Enqueue(s, l2_dump_cmd), outs)
  IN PopulateFrom(t, Records(t), outs)

\* The heap slots handle_populate needs after its dump: none when the dump
\* has no record, else one for the local acl and one for each key the
\* store has no instance of.
PopulateNeeds(s) ==
  IF Records(s) = {} THEN 0
  ELSE 1 + Cardinality({k \in Keys : s.db[k] = NULL /\
                                     \E h \in Records(s) : s.dev[h].key = k})

RECURSIVE ReplayFrom(_, _)
\* singular_db::replay: replay() on every registered instance, in the
\* order of the keys.
ReplayFrom(s, n) ==
  IF n > Len(KeyOrder) THEN s
  ELSE LET k == KeyOrder[n]
       IN ReplayFrom(IF s.db[k] = NULL THEN s ELSE replay(s, s.db[k]), n + 1)

\* handle_replay writing the queue out when it has replayed.
handle_replay_flushes(s) ==
  HW_write(ReplayFrom(s, 1), [n \in 1..(MaxQueue + 1) |-> TRUE])

\* l2_list::event_handler::handle_replay
handle_replay(s) == ReplayFrom(s, 1)

\* The pushes handle_replay enqueues.
ReplayNeeds(s) ==
  Cardinality({k \in Keys : s.db[k] # NULL /\ Valid(s.obj[s.db[k]].hdl)})

\* ------------------------------------------------------------ the record
\* of the last operation: its name, the object it ran on (i) with that
\* object's state before (pre), the key and rule set it was handed, what it
\* returned, the HW calls it made (log), the instance the store had last
\* handed out for the key (was), whether it repeats the operation before it
\* on the same object with the same argument and whether that one enqueued
\* (rep: "no", "quiet", "pushed"), whether the object was the registered
\* instance of its key (reg), and the keys the store had no instance of
\* (fresh), and the item add was handed (item).
NoOp == [op |-> "init", i |-> NULL, pre |-> Dead, key |-> "", arg |-> {},
         ret |-> NULL, log |-> <<>>, was |-> NULL, rep |-> "no",
         reg |-> FALSE, fresh |-> {}, item |-> ItemOf(INVALID)]

\* The instances handed out per key once the operation is over: a key whose
\* entry a release erased has none.
Handed(t, base) ==
  [k \in Keys |->
     IF \E n \in 1..Len(t.log) :
          /\ t.log[n].e = "release"
          /\ t.log[n].type = "erased"
          /\ t.log[n].key = k
     THEN NULL ELSE base[k]]

Commit(t, h, l) ==
  /\ budget > 0
  /\ budget' = budget - 1
  /\ obj' = t.obj
  /\ m_db' = t.db
  /\ m_hdl_db' = t.hdb
  /\ queue' = t.q
  /\ dev' = t.dev
  /\ handed' = h
  /\ last' = l

Items == [data : Handles, rc : {"OK", "FAIL"}]

\* No object exists, the static maps and the queue are empty, the device
\* holds no ACL.
Start ==
  /\ obj = [i \in Ids |-> Dead]
  /\ m_db = [k \in Keys |-> NULL]
  /\ m_hdl_db = [h \in Handles |-> -1]
  /\ queue = <<>>
  /\ dev = [h \in Handles |-> NoAcl]
  /\ handed = [k \in Keys |-> NULL]
  /\ last = NoOp

Init == Start /\ budget = MaxSteps

InitUpdate == Start /\ budget = MaxStepsUpdate

InitReplay == Start /\ budget = MaxStepsReplay

\* The ACL tables the device may hold when the program starts: none, or
\* the ACLs an earlier run left on it, which populate is there to learn of.
\* Of these one table holds a single ACL and one holds two under one key.
DeviceTables ==
  { [h \in Handles |-> NoAcl],
    [h \in Handles |-> IF h = 1
                       THEN [key |-> "k2", rules |-> {"B"}, used |-> TRUE]
                       ELSE NoAcl],
    [h \in Handles |-> [key |-> "k1",
                        rules |-> IF h = 1 THEN {"B"} ELSE {"A", "B"},
                        used |-> TRUE]] }

InitPopulate ==
  /\ obj = [i \in Ids |-> Dead]
  /\ m_db = [k \in Keys |-> NULL]
  /\ m_hdl_db = [h \in Handles |-> -1]
  /\ queue = <<>>
  /\ dev \in DeviceTables
  /\ handed = [k \in Keys |-> NULL]
  /\ last = NoOp
  /\ budget = MaxStepsPopulate

\* ---------------------------------------------------------------- actions
\* A caller builds an object from a key.
NewKey(k) ==
  /\ HasFree(Cur)
  /\ LET a == NewId(Cur)
         t == [Cur EXCEPT !.obj[a] = l2_list_key(k)]
     IN Commit(t, handed, [NoOp EXCEPT !.op = "ctor"])

\* A caller builds an object from a key and a rule set.
NewKeyRules(k, rules) ==
  /\ HasFree(Cur)
  /\ LET a == NewId(Cur)
         t == [Cur EXCEPT !.obj[a] = l2_list_key_rules(k, rules)]
     IN Commit(t, handed, [NoOp EXCEPT !.op = "ctor"])

\* A caller copies an object.
Copy(i) ==
  /\ obj[i].alive
  /\ HasFree(Cur)
  /\ LET a == NewId(Cur)
         t == [Cur EXCEPT !.obj[a] = l2_list_copy(obj[i])]
     IN Commit(t, handed, [NoOp EXCEPT !.op = "copy"])

\* i.singular(): the caller keeps the shared_ptr it is returned.
Singular(i) ==
  /\ obj[i].alive
  /\ m_db[obj[i].key] # NULL \/ HasFree(Cur)
  /\ LET t == singular(Cur, i)
         k == obj[i].key
     IN /\ t.obj[t.ret].refs < MaxRefs
        /\ Commit([t EXCEPT !.obj[t.ret].refs = @ + 1],
                  [handed EXCEPT ![k] = t.ret],
                  [NoOp EXCEPT !.op = "singular", !.i = i, !.key = k,
                               !.ret = t.ret, !.was = handed[k]])

\* i.handle(): the handle of the singular instance; the shared_ptr
\* singular() returned goes when the call is over, and with it an instance
\* nobody else owns.
Handle(i, outs) ==
  /\ obj[i].alive
  /\ m_db[obj[i].key] # NULL \/ HasFree(Cur)
  /\ LET t == singular(Cur, i)
         k == obj[i].key
         l == [NoOp EXCEPT !.op = "handle", !.i = i, !.key = k,
                           !.ret = t.ret, !.was = handed[k]]
     IN IF Owners(t.obj[t.ret]) = 0
        THEN LET u == dtor(t, t.ret, outs)
             IN Commit(u, Handed(u, [handed EXCEPT ![k] = t.ret]), l)
        ELSE Commit(t, [handed EXCEPT ![k] = t.ret], l)

\* i.insert(rule)
Insert(i, rule) ==
  /\ obj[i].alive
  /\ Commit(insert(Cur, i, rule), handed,
            [NoOp EXCEPT !.op = "insert"])

\* i.remove(rule)
Remove(i, rule) ==
  /\ obj[i].alive
  /\ Commit(remove(Cur, i, rule), handed,
            [NoOp EXCEPT !.op = "remove"])

\* The singular instance i is updated with the desired object d.
Update(i, d) ==
  /\ obj[i].alive /\ obj[i].shared
  /\ obj[d].alive /\ obj[d].key = obj[i].key
  /\ Len(queue) < MaxQueue
  /\ LET t == update(Cur, i, obj[d])
     IN Commit(t, handed,
               [NoOp EXCEPT !.op = "update", !.i = i, !.pre = obj[i],
                            !.arg = obj[d].rules, !.log = t.log,
                            !.rep = IF /\ last.op = "update"
                                       /\ last.i = i
                                       /\ last.arg = obj[d].rules
                                    THEN IF last.log = <<>> THEN "quiet"
                                         ELSE "pushed"
                                    ELSE "no"])

\* i.replay()
Replay(i) ==
  /\ obj[i].alive /\ obj[i].shared
  /\ Len(queue) < MaxQueue
  /\ LET t == replay(Cur, i)
     IN Commit(t, handed,
               [NoOp EXCEPT !.op = "replay", !.i = i, !.pre = obj[i],
                            !.log = t.log])

\* The object i goes: its destructor runs.
Destroy(s, i, outs) ==
  LET t == dtor(s, i, outs)
  IN Commit(t, Handed(t, handed),
            [NoOp EXCEPT !.op = "dtor", !.i = i, !.pre = obj[i],
                         !.key = obj[i].key, !.log = t.log,
                         !.reg = m_db[obj[i].key] = i])

\* A caller lets go of a shared_ptr to i; the last owner destroys it.
DropRef(i, outs) ==
  /\ obj[i].alive /\ obj[i].shared /\ obj[i].refs > 0
  /\ LET s == [Cur EXCEPT !.obj[i].refs = @ - 1]
     IN IF Owners(s.obj[i]) = 0
        THEN Destroy(s, i, outs)
        ELSE Commit(s, handed, [NoOp EXCEPT !.op = "drop"])

\* The commit registry lets go of i; the last owner destroys it.
OMRemove(i, outs) ==
  /\ obj[i].alive /\ obj[i].om
  /\ LET s == [Cur EXCEPT !.obj[i].om = FALSE]
     IN IF Owners(s.obj[i]) = 0
        THEN Destroy(s, i, outs)
        ELSE Commit(s, handed, [NoOp EXCEPT !.op = "drop"])

\* An object a caller built or copied leaves scope.
DestroyTemp(i, outs) ==
  /\ obj[i].alive /\ ~obj[i].shared
  /\ Destroy(Cur, i, outs)

\* The caller flushes the queue.
Write(outs) ==
  /\ queue # <<>>
  /\ LET t == HW_write(Cur, outs)
     IN Commit(t, handed, [NoOp EXCEPT !.op = "write", !.log = t.log])

\* l2_list::find(handle)
FindHandle(h) ==
  /\ h \in Handles
  /\ LET t == find_hdl(Cur, h)
     IN Commit(t, handed, [NoOp EXCEPT !.op = "find_hdl", !.ret = t.ret])

\* l2_list::add(key, item)
Add(k, item) ==
  /\ item \in Items
  /\ Commit(add(Cur, k, item), handed,
            [NoOp EXCEPT !.op = "add", !.key = k, !.item = item])

\* l2_list::remove(item)
RemoveHdl(item) ==
  /\ item \in Items
  /\ Commit(remove_hdl(Cur, item), handed, [NoOp EXCEPT !.op = "remove_hdl"])

\* The populate event.
HandlePopulate(outs) ==
  /\ Cardinality(FreeIds(HW_write(Enqueue(Cur, l2_dump_cmd), outs)))
       >= PopulateNeeds(HW_write(Enqueue(Cur, l2_dump_cmd), outs))
  /\ LET t == handle_populate(Cur, outs)
     IN Commit(t, Handed(t, [k \in Keys |->
                               IF \E h \in Records(t) : t.dev[h].key = k
                               THEN t.db[k] ELSE handed[k]]),
               [NoOp EXCEPT !.op = "populate", !.log = t.log,
                            !.fresh = {k \in Keys : m_db[k] = NULL}])

\* The replay event.
HandleReplay ==
  /\ Len(queue) + ReplayNeeds(Cur) <= MaxQueue
  /\ LET t == handle_replay(Cur)
     IN Commit(t, handed, [NoOp EXCEPT !.op = "handle_replay",
                                       !.log = t.log])

Next ==
  \/ \E k \in Keys : NewKey(k)
  \/ \E k \in Keys, rules \in CtorRules : NewKeyRules(k, rules)
  \/ \E i \in Ids : Copy(i)
  \/ \E i \in Ids : Singular(i)
  \/ \E i \in Ids, outs \in Outcomes : Handle(i, outs)
  \/ \E i \in Ids, rule \in Rules : Insert(i, rule)
  \/ \E i \in Ids, rule \in Rules : Remove(i, rule)
  \/ \E i \in Ids, d \in Ids : Update(i, d)
  \/ \E i \in Ids : Replay(i)
  \/ \E i \in Ids, outs \in Outcomes : DropRef(i, outs)
  \/ \E i \in Ids, outs \in Outcomes : OMRemove(i, outs)
  \/ \E i \in Ids, outs \in Outcomes : DestroyTemp(i, outs)
  \/ \E outs \in Outcomes : Write(outs)
  \/ \E k \in Keys, item \in Items : Add(k, item)
  \/ \E item \in Items : RemoveHdl(item)
  \/ \E h \in Handles : FindHandle(h)
  \/ \E outs \in Outcomes : HandlePopulate(outs)
  \/ HandleReplay

Spec == Init /\ [][Next]_vars

\* The update protocol on its own, one operation deeper: objects are
\* built, made singular, changed, updated, replayed, written out and let
\* go.
NextUpdate ==
  \/ \E k \in Keys : NewKey(k)
  \/ \E k \in Keys, rules \in CtorRules : NewKeyRules(k, rules)
  \/ \E i \in Ids : Singular(i)
  \/ \E i \in Ids, rule \in Rules : Insert(i, rule)
  \/ \E i \in Ids, rule \in Rules : Remove(i, rule)
  \/ \E i \in Ids, d \in Ids : Update(i, d)
  \/ \E i \in Ids : Replay(i)
  \/ \E i \in Ids, outs \in Outcomes : DropRef(i, outs)
  \/ \E i \in Ids, outs \in Outcomes : DestroyTemp(i, outs)
  \/ \E outs \in Outcomes : Write(outs)

SpecUpdate == InitUpdate /\ [][NextUpdate]_vars

\* Replay on its own, deep enough for two provisioned instances: objects
\* are built, made singular, updated, written out and replayed.
NextReplay ==
  \/ \E k \in Keys : NewKey(k)
  \/ \E i \in Ids : Singular(i)
  \/ \E i \in Ids, d \in Ids : Update(i, d)
  \/ \E i \in Ids, outs \in Outcomes : DestroyTemp(i, outs)
  \/ \E outs \in Outcomes : Write(outs)
  \/ \E i \in Ids : Replay(i)
  \/ HandleReplay

SpecReplay == InitReplay /\ [][NextReplay]_vars

\* Population on its own, deep enough for the device to hold a rule set
\* built by insert whose instance has gone: objects are built, changed,
\* made singular, updated, written out, let go and discovered again.
NextPopulate ==
  \/ \E k \in Keys : NewKey(k)
  \/ \E i \in Ids, rule \in Rules : Insert(i, rule)
  \/ \E i \in Ids : Singular(i)
  \/ \E i \in Ids, d \in Ids : Update(i, d)
  \/ \E i \in Ids, outs \in Outcomes : DropRef(i, outs)
  \/ \E i \in Ids, outs \in Outcomes : DestroyTemp(i, outs)
  \/ \E outs \in Outcomes : Write(outs)
  \/ \E outs \in Outcomes : HandlePopulate(outs)

SpecPopulate == InitPopulate /\ [][NextPopulate]_vars

\* ----------------------------------------------------------------- claims
\* The enqueue events of the last operation.
Enqueued == SelectSeq(last.log, LAMBDA ev : ev.e = "enqueue")

\* The last operation ran on an object holding the valid handle h.
HeldValid(h) ==
  /\ Valid(last.pre.hdl)
  /\ last.pre.hdl.data = h
  /\ h # INVALID

\* C1: find_or_add / singular() with a key return the instance the store
\* last handed out for that key as long as no release has erased the
\* key's entry, and no key has two live store-made instances.
C1_Dedup ==
  /\ last.op \in {"singular", "handle"} =>
       /\ last.ret # NULL
       /\ last.was # NULL => last.ret = last.was
  /\ last.op = "singular" =>
       /\ obj[last.ret].alive
       /\ obj[last.ret].key = last.key
       /\ m_db[last.key] = last.ret
  /\ \A i, j \in Ids :
       (/\ obj[i].alive /\ obj[i].shared
        /\ obj[j].alive /\ obj[j].shared
        /\ obj[i].key = obj[j].key) => i = j

C1_Witness ==
  /\ last.op = "handle"
  /\ last.was # NULL
  /\ last.ret = last.was
  /\ last.i # last.ret
  /\ obj[last.ret].refs > 0
  /\ ~obj[last.ret].om

\* C2: when update(desired) enqueues a push, the rules the command carries
\* are desired.rules.
C2_FullStatePush ==
  (last.op = "update" /\ Enqueued # <<>>) =>
     /\ Len(Enqueued) = 1
     /\ Enqueued[1].type = "push"
     /\ Enqueued[1].rules = last.arg

\* C3: of two update(d) in a row on an instance whose result code is OK,
\* the second enqueues nothing; an update on such an instance enqueues
\* exactly when d's rules differ from the stored ones in more than their
\* order indices.
C3_UpdateIdempotent ==
  (last.op = "update" /\ last.pre.hdl.rc = "OK") =>
     /\ last.rep # "no" => Enqueued = <<>>
     /\ (Enqueued # <<>>) <=> ~RulesEqual(last.arg, last.pre.rules)

C3_Witness ==
  /\ last.op = "update"
  /\ last.pre.hdl.rc = "OK"
  /\ last.rep = "pushed"
  /\ last.log = <<>>

\* C4: an update on an instance whose result code is not OK enqueues
\* exactly one push, whatever the desired rules are.
C4_RetryAfterFailure ==
  (last.op = "update" /\ last.pre.hdl.rc # "OK") =>
     /\ Len(last.log) = 1
     /\ last.log[1].e = "enqueue"
     /\ last.log[1].type = "push"
     /\ queue # <<>>
     /\ queue[Len(queue)].type = "push"
     /\ queue[Len(queue)].item = last.i

C4_Witness ==
  /\ last.op = "update"
  /\ last.pre.hdl.rc = "FAIL"
  /\ last.arg = last.pre.rules
  /\ Len(Enqueued) = 1

\* C5: after update(desired) the instance stores desired.rules and has the
\* key it had.
C5_UpdateStores ==
  last.op = "update" =>
     /\ obj[last.i].rules = last.arg
     /\ obj[last.i].key = last.pre.key

C5_Witness ==
  /\ last.op = "update"
  /\ last.pre.hdl.rc = "OK"
  /\ last.pre.rules = {"A", "B"}
  /\ last.arg = {"A"}
  /\ obj[last.i].rules = {"A"}

\* C6: the destructor of an object holding the valid handle h enqueues
\* one delete for h, then writes the queue out, then releases its key; the
\* queue is empty when it returns and, if the object was the registered
\* instance, the store has no entry for the key.
C6_SweepOrdering ==
  \A h \in Handles :
    (last.op = "dtor" /\ HeldValid(h)) =>
       /\ Len(last.log) = 3
       /\ last.log[1].e = "enqueue"
       /\ last.log[1].type = "delete"
       /\ last.log[1].hdl = h
       /\ last.log[2].e = "write"
       /\ last.log[3].e = "release"
       /\ last.log[3].key = last.key
       /\ queue = <<>>
       /\ last.reg => m_db[last.key] = NULL

C6_Witness ==
  /\ last.op = "dtor"
  /\ \E h \in Handles : HeldValid(h)
  /\ last.reg
  /\ m_db[last.key] = NULL
  /\ Len(last.log) = 3

\* C7: replay() on an object holding the valid handle h leaves the handle
\* INVALID, keeps key and rules, enqueues one push carrying key and the
\* stored rules, and does not write the queue out.
C7_ReplayResets ==
  \A h \in Handles :
    (last.op = "replay" /\ HeldValid(h)) =>
       /\ obj[last.i].hdl.data = INVALID
       /\ obj[last.i].rules = last.pre.rules
       /\ obj[last.i].key = last.pre.key
       /\ Len(last.log) = 1
       /\ last.log[1].e = "enqueue"
       /\ last.log[1].type = "push"
       /\ last.log[1].hdl = INVALID
       /\ last.log[1].key = last.pre.key
       /\ last.log[1].rules = last.pre.rules
       /\ queue # <<>>
       /\ queue[Len(queue)] = l2_update_cmd(last.i, last.pre.key,
                                            last.pre.rules)

C7_Witness ==
  /\ last.op = "replay"
  /\ \E h \in Handles : HeldValid(h)
  /\ last.pre.rules = {"A", "B"}
  /\ obj[last.i].hdl.data = INVALID
  /\ Len(queue) = 1

\* The instance find(handle) returns in this state.
Lookup(h) == find_hdl(Cur, h).ret

\* C8: find(handle) never returns a destroyed object: a handle whose index
\* entry refers to an object that is gone resolves to null; and the index
\* keeps nothing alive: a live store-made instance has an owner.
C8_WeakIndex ==
  /\ \A h \in Handles :
       /\ Lookup(h) # NULL => obj[Lookup(h)].alive
       /\ (m_hdl_db[h] \in Ids /\ ~obj[m_hdl_db[h]].alive) =>
            Lookup(h) = NULL
  /\ last.op = "dtor" => \A h \in Handles : Lookup(h) # last.i
  /\ \A i \in Ids : (obj[i].alive /\ obj[i].shared) => Owners(obj[i]) > 0

C8_Witness ==
  /\ last.op = "dtor"
  /\ last.reg
  /\ \E h \in Handles :
       /\ HeldValid(h)
       /\ m_hdl_db[h] = last.i
       /\ Lookup(h) = NULL

\* What the claim expects for the record of handle h: the instance
\* registered under the record's key has that handle and key, and rules
\* equal to the record's as the program compares rule sets.
Merged(h) ==
  LET j == find_key(Cur, dev[h].key)
  IN /\ j # NULL
     /\ obj[j].hdl.data = h
     /\ obj[j].key = dev[h].key
     /\ RulesEqual(obj[j].rules, dev[h].rules)

\* Populate enqueued no push.
NoPush == \A n \in 1..Len(Enqueued) : Enqueued[n].type # "push"

FirstOfFreshKey(h) ==
  /\ dev[h].key \in last.fresh
  /\ \A g \in Records(Cur) : g < h => dev[g].key # dev[h].key

\* The rules of a record as populate reads them: as many rules, with the
\* order indices 0, 1, ... of their places in the record.
ByPosition(rules) == {RuleAt(n) : n \in 0..(Cardinality(rules) - 1)}

\* The instance registered under the key of the record of handle h has that
\* handle and key, and rules equal to the record's as the program compares
\* rule sets, each with its place in the record as order index.
MergedByPosition(h) ==
  LET j == find_key(Cur, dev[h].key)
  IN /\ j # NULL
     /\ obj[j].hdl.data = h
     /\ obj[j].key = dev[h].key
     /\ RulesEqual(obj[j].rules, dev[h].rules)
     /\ obj[j].rules = ByPosition(dev[h].rules)

C10_SingleOwner ==
  /\ \A i, j \in Ids :
       (/\ obj[i].alive /\ obj[j].alive
        /\ Valid(obj[i].hdl) /\ Valid(obj[j].hdl)
        /\ obj[i].hdl.data # INVALID
        /\ obj[i].hdl.data = obj[j].hdl.data) => i = j
  /\ (last.op = "dtor" /\ \E n \in 1..Len(last.log) :
                            last.log[n].type = "delete") => last.reg

\* C11: when the destructor or replay() has run on an instance that held
\* the valid handle h and that the index mapped h to, the index has no entry
\* for h.
C11_IndexCleanup ==
  [][\A h \in Handles :
       (/\ last'.op \in {"dtor", "replay"}
        /\ HeldValid(h)'
        /\ m_hdl_db[h] = last'.i) => m_hdl_db'[h] = -1]_vars

\* C12: a destructor ends with one release of its own key; the store's
\* entry for that key goes exactly when the object destroyed was the
\* registered instance, and no other entry changes.
C12_ReleaseGuard ==
  [][last'.op = "dtor" =>
       LET k == last'.key
           i == last'.i
           n == Len(last'.log)
       IN /\ n > 0
          /\ last'.log[n].e = "release"
          /\ last'.log[n].key = k
          /\ \A m \in 1..(n - 1) : last'.log[m].e # "release"
          /\ m_db[k] = i => m_db'[k] = NULL
          /\ m_db[k] # i => m_db' = m_db
          /\ \A j \in Keys \ {k} : m_db'[j] = m_db[j]]_vars

C12_Witness ==
  /\ last.op = "dtor"
  /\ ~last.reg
  /\ ~last.pre.shared
  /\ m_db[last.key] # NULL
  /\ obj[m_db[last.key]].alive
  /\ obj[m_db[last.key]].key = last.pre.key

\* C13: insert(rule) and remove(rule) change the rule set of one object and
\* nothing else: the queue, the device, the store and the handle index are
\* as they were, and so are every object's handle, key and existence.
C13_LocalRuleEdit ==
  [][last'.op \in {"insert", "remove"} =>
       /\ queue' = queue
       /\ dev' = dev
       /\ m_db' = m_db
       /\ m_hdl_db' = m_hdl_db
       /\ \A i \in Ids : /\ obj'[i].hdl = obj[i].hdl
                         /\ obj'[i].key = obj[i].key
                         /\ obj'[i].alive = obj[i].alive
       /\ \A i, j \in Ids : (/\ obj'[i].rules # obj[i].rules
                             /\ obj'[j].rules # obj[j].rules) => i = j]_vars

C13_Witness ==
  /\ last.op = "insert"
  /\ \E i \in Ids, h \in Handles :
       /\ obj[i].alive /\ obj[i].shared
       /\ obj[i].hdl = [data |-> h, rc |-> "OK"]
       /\ m_hdl_db[h] = i
       /\ m_db[obj[i].key] = i
       /\ dev[h].rules = {}
       /\ obj[i].rules # {}

\* C14: add(key, item) maps the item's handle to the instance registered
\* under key when there is one and the item is valid, and leaves the index
\* as it was otherwise; it changes no object (the entry owns nothing), nor
\* the store, nor the queue.
C14_AddGuard ==
  [][last'.op = "add" =>
       LET k == last'.key
           item == last'.item
       IN /\ obj' = obj
          /\ m_db' = m_db
          /\ queue' = queue
          /\ m_hdl_db' = IF m_db[k] # NULL /\ item.rc = "OK"
                         THEN [m_hdl_db EXCEPT ![item.data] = m_db[k]]
                         ELSE m_hdl_db]_vars

C14_Witness ==
  /\ last.op = "add"
  /\ last.item.rc = "OK"
  /\ m_db[last.key] # NULL
  /\ m_hdl_db[last.item.data] = m_db[last.key]
  /\ obj[m_db[last.key]].hdl.data # last.item.data
  /\ Owners(obj[m_db[last.key]]) = 1

\* The device still holds the ACL of h: the delete of the destructor that
\* has just run on the holder of h was refused.
DeleteFailed(h) == HeldValid(h) /\ dev[h].used

\* C15: when the delete of a destructor's sweep has failed, the destructor
\* has enqueued that one delete and no other command, nothing is left
\* queued, the object is gone and its key released: the registered
\* instance's entry is out of the store.
C15_BestEffortTeardown ==
  \A h \in Handles :
    (last.op = "dtor" /\ DeleteFailed(h)) =>
       /\ Len(Enqueued) = 1
       /\ Enqueued[1].type = "delete"
       /\ Enqueued[1].hdl = h
       /\ queue = <<>>
       /\ ~obj[last.i].alive
       /\ last.log[Len(last.log)].e = "release"
       /\ last.log[Len(last.log)].key = last.key
       /\ last.reg => m_db[last.key] = NULL

C15_Witness ==
  /\ last.op = "dtor"
  /\ last.reg
  /\ \E h \in Handles : DeleteFailed(h) /\ dev[h].key = last.key
  /\ m_db[last.key] = NULL
  /\ ~obj[last.i].alive

\* The pushes the last operation enqueued for key k.
PushesFor(k) ==
  SelectSeq(last.log, LAMBDA ev : ev.e = "enqueue" /\ ev.type = "push"
                                   /\ ev.key = k)

\* C16: handle_replay runs replay() once on every registered instance (one
\* with a valid handle has it reset and one push of its key and rules
\* enqueued, any other is left as it was), writes nothing out, and leaves
\* what it enqueued behind what was queued.
C16_ReplayAll ==
  [][last'.op = "handle_replay" =>
       /\ \A n \in 1..Len(last'.log) : last'.log[n].e = "enqueue"
       /\ dev' = dev
       /\ m_db' = m_db
       /\ Len(queue') = Len(queue) + Len(last'.log)
       /\ SubSeq(queue', 1, Len(queue)) = queue
       /\ Len(last'.log) =
            Cardinality({k \in Keys : m_db[k] # NULL /\
                                      Valid(obj[m_db[k]].hdl)})
       /\ \A k \in Keys :
            m_db[k] # NULL =>
              LET i == m_db[k]
              IN IF Valid(obj[i].hdl)
                 THEN /\ obj'[i].hdl.data = INVALID
                      /\ obj'[i].rules = obj[i].rules
                      /\ Len(PushesFor(k)') = 1
                      /\ PushesFor(k)'[1].rules = obj[i].rules
                 ELSE /\ obj'[i] = obj[i]
                      /\ PushesFor(k)' = <<>>]_vars

C16_Witness ==
  /\ last.op = "handle_replay"
  /\ Len(last.log) = 2
  /\ Len(queue) = 2
  /\ \A k \in Keys : /\ m_db[k] # NULL
                     /\ obj[m_db[k]].hdl = [data |-> INVALID, rc |-> "OK"]
                     /\ Len(PushesFor(k)) = 1

\* C17: on an object whose handle is not valid, replay() enqueues nothing
\* and leaves handle, key and rules as they were, and the sweep of the
\* destructor enqueues nothing.
C17_InvalidHandleQuiet ==
  ~Valid(last.pre.hdl) =>
     /\ last.op = "replay" =>
          /\ last.log = <<>>
          /\ obj[last.i].hdl = last.pre.hdl
          /\ obj[last.i].key = last.pre.key
          /\ obj[last.i].rules = last.pre.rules
     /\ last.op = "dtor" => Enqueued = <<>>

C17_Witness ==
  /\ last.op = "replay"
  /\ last.pre.hdl.rc = "FAIL"
  /\ last.pre.rules # {}
  /\ obj[last.i] = last.pre
  /\ queue = <<>>

\* The last operation wrote the queue out and every command succeeded.
FlushedOk ==
  /\ last.op \in {"write", "dtor"}
  /\ \E n \in 1..Len(last.log) : /\ last.log[n].e = "write"
                                 /\ last.log[n].type = "ok"
  /\ queue = <<>>

\* C18: when the queue has been written out with every command succeeding,
\* the registered instance of a key whose handle's result code is OK has a
\* handle the device holds, and the rules the device holds for it are the
\* instance's stored rules.
C18_Convergence ==
  \A i \in Ids :
    (/\ FlushedOk
     /\ obj[i].alive /\ obj[i].shared
     /\ m_db[obj[i].key] = i
     /\ Valid(obj[i].hdl)) =>
       /\ obj[i].hdl.data # INVALID
       /\ dev[obj[i].hdl.data].used
       /\ dev[obj[i].hdl.data].rules = obj[i].rules

\* C19: find(handle) leaves the handle index as it was: a handle with no
\* entry has none afterwards.
C19_FindReadOnly ==
  [][last'.op = "find_hdl" => m_hdl_db' = m_hdl_db]_vars

====
